---- MODULE Spec2Model ----
(***************************************************************************)
(* A model of the Slurm queue viewer: the squeue text parser               *)
(* (squeue_parser.py), the row style function (squeue_styles.py) and the   *)
(* data loading of the viewer application (squeue_viewer.py).              *)
(*                                                                         *)
(* Python strings are TLA+ strings; a character is a string of length 1.   *)
(* Python lists are sequences, Python dicts are functions on their keys.   *)
(***************************************************************************)
EXTENDS Integers, Sequences, FiniteSets, TLC

VARIABLES
    squeue_output_str,  \* the argument of parse_squeue_output
    lines,              \* squeue_output_str.strip().split('\n')
    i,                  \* index of the header scan (0-based, as enumerate gives it)
    header_line_index,  \* -1 until a header line is found
    data_lines,         \* lines[header_line_index+1:]
    data_pos,           \* how many elements of data_lines the for loop has consumed
    parsed_jobs,        \* the list of records built so far
    pc,                 \* position of the call: "call", "scan", "data", "returned", "raised"
    result,             \* the returned list (once pc = "returned")
    file,               \* state of SQUEUE_MOCK_FILE: [kind |-> ..., text |-> ...]
    all_jobs,           \* SqueueViewerApp.all_jobs
    app_pc,             \* position of the application: "init", "loaded", "mounted"
    table,              \* the rows of SqueueViewerApp.table, in the order they were added
    group_by,           \* the argument of the latest update_table_data, "(none)" before it
    fallback_jobs,      \* the contents of the module's list FALLBACK_JOBS_DATA
    all_jobs_is_fallback, \* all_jobs is the list object FALLBACK_JOBS_DATA itself
    job_status,         \* the argument of get_row_style
    style               \* what get_row_style returned, or "(none)" before the call

vars == <<squeue_output_str, lines, i, header_line_index, data_lines, data_pos,
          parsed_jobs, pc, result, file, all_jobs, app_pc, table, group_by,
          fallback_jobs, all_jobs_is_fallback, job_status, style>>

parserVars == <<squeue_output_str, lines, i, header_line_index, data_lines,
                data_pos, parsed_jobs, pc, result>>
viewerVars == <<file, all_jobs, app_pc, table, group_by, fallback_jobs, all_jobs_is_fallback>>
styleVars == <<job_status, style>>

(***************************************************************************)
(* Bounds of the model.                                                    *)
(***************************************************************************)
MaxLines == 3          \* an input text has at most this many physical lines
MaxStatusLen == 2      \* a state code given to get_row_style has at most this many characters

(***************************************************************************)
(* Python string primitives.                                               *)
(***************************************************************************)
Char(s, n) == SubSeq(s, n, n)

\* str.isspace() on one character, for the characters that occur in the model
IsSpace(c) == c \in {" ", "\t", "\n", "\r", "\f"}

\* the first position >= n of s that holds no whitespace, Len(s)+1 if none
SkipSpace(s, n) ==
    CHOOSE m \in n..(Len(s) + 1) :
        /\ m = Len(s) + 1 \/ ~IsSpace(Char(s, m))
        /\ \A k \in n..(m - 1) : IsSpace(Char(s, k))

\* the first position >= n of s that holds whitespace, Len(s)+1 if none
SkipWord(s, n) ==
    CHOOSE m \in n..(Len(s) + 1) :
        /\ m = Len(s) + 1 \/ IsSpace(Char(s, m))
        /\ \A k \in n..(m - 1) : ~IsSpace(Char(s, k))

\* the last position of s that holds no whitespace, 0 if none
LastNonSpace(s) ==
    CHOOSE m \in 0..Len(s) :
        /\ m = 0 \/ ~IsSpace(Char(s, m))
        /\ \A k \in (m + 1)..Len(s) : IsSpace(Char(s, k))

\* str.strip()
Strip(s) == SubSeq(s, SkipSpace(s, 1), LastNonSpace(s))

\* the first position >= n of s that holds the character sep, Len(s)+1 if none
Find(s, sep, n) ==
    CHOOSE m \in n..(Len(s) + 1) :
        /\ m = Len(s) + 1 \/ Char(s, m) = sep
        /\ \A k \in n..(m - 1) : Char(s, k) # sep

RECURSIVE SplitFrom(_, _, _)
SplitFrom(s, sep, n) ==
    LET m == Find(s, sep, n)
    IN IF m > Len(s) THEN <<SubSeq(s, n, Len(s))>>
       ELSE <<SubSeq(s, n, m - 1)>> \o SplitFrom(s, sep, m + 1)

\* str.split(sep) for a separator of one character: never the empty list
Split(s, sep) == SplitFrom(s, sep, 1)

\* pat in s
Contains(s, pat) ==
    \E n \in 1..(Len(s) - Len(pat) + 1) : SubSeq(s, n, n + Len(pat) - 1) = pat

RECURSIVE SplitWsFrom(_, _, _)
\* the loop of str.split(None, maxsplit): words are cut while splits remain,
\* then the rest of the string, less its leading whitespace, is one last part
SplitWsFrom(s, n, maxcount) ==
    IF maxcount > 0
    THEN LET j == SkipSpace(s, n)
             k == SkipWord(s, j)
         IN IF j > Len(s) THEN <<>>
            ELSE <<SubSeq(s, j, k - 1)>> \o SplitWsFrom(s, k, maxcount - 1)
    ELSE LET j == SkipSpace(s, n)
         IN IF j > Len(s) THEN <<>> ELSE <<SubSeq(s, j, Len(s))>>

\* str.split(None, maxsplit)
SplitWs(s, maxsplit) == SplitWsFrom(s, 1, maxsplit)

(***************************************************************************)
(* parse_squeue_output, piece by piece.                                    *)
(***************************************************************************)
Keys == {"JOBID", "PARTITION", "NAME", "USER", "ST", "TIME", "NODES",
         "NODELIST(REASON)"}

\* squeue_output_str.strip().split('\n')
InputLines(text) == Split(Strip(text), "\n")

\* a header test that is satisfied by any one of the markers
IsHeader_AnyMarker(line) ==
    Contains(line, "JOBID") \/ Contains(line, "PARTITION") \/ Contains(line, "USER")

\* the test of the header scan
IsHeader(line) ==
    Contains(line, "JOBID") /\ Contains(line, "PARTITION") /\ Contains(line, "USER")

\* not line.strip()
IsBlank(line) == Strip(line) = ""

\* a split of the line trimmed first: line.strip().split(None, 7)
Parts_OfTrimmedLine(line) == SplitWs(Strip(line), 7)

RECURSIVE SplitSepFrom(_, _, _, _)
\* str.split(sep, maxsplit) for a separator of one character
SplitSepFrom(s, sep, n, maxcount) ==
    LET m == Find(s, sep, n)
    IN IF maxcount = 0 \/ m > Len(s) THEN <<SubSeq(s, n, Len(s))>>
       ELSE <<SubSeq(s, n, m - 1)>> \o SplitSepFrom(s, sep, m + 1, maxcount - 1)

\* a split at each single space: line.split(' ', 7)
Parts_SplitOnSpace(line) == SplitSepFrom(line, " ", 1, 7)

\* a split that allows one split less
Parts_MaxSplit6(line) == SplitWs(line, 6)

\* a split that allows one split more
Parts_MaxSplit8(line) == SplitWs(line, 8)

\* line.split(None, 7)
Parts(line) == SplitWs(line, 7)

\* a branch choice without the elif of the 7-part lines
Branch_NoElif(parts) == IF Len(parts) = 8 THEN "full" ELSE "skip"

\* which branch of the if / elif / else on len(parts) a line takes
Branch(parts) ==
    IF Len(parts) = 8 THEN "full"
    ELSE IF Len(parts) = 7 THEN "notail"
    ELSE "skip"

\* the dict built when len(parts) == 8
JobDataFull(parts) ==
    ("JOBID" :> parts[1]) @@ ("PARTITION" :> parts[2]) @@ ("NAME" :> parts[3])
    @@ ("USER" :> parts[4]) @@ ("ST" :> parts[5]) @@ ("TIME" :> parts[6])
    @@ ("NODES" :> parts[7]) @@ ("NODELIST(REASON)" :> parts[8])

\* a 7-part dict that leaves the last key out
JobDataNoTail_KeyLeftOut(parts) ==
    ("JOBID" :> parts[1]) @@ ("PARTITION" :> parts[2]) @@ ("NAME" :> parts[3])
    @@ ("USER" :> parts[4]) @@ ("ST" :> parts[5]) @@ ("TIME" :> parts[6])
    @@ ("NODES" :> parts[7])

\* the dict built when len(parts) == 7
JobDataNoTail(parts) ==
    ("JOBID" :> parts[1]) @@ ("PARTITION" :> parts[2]) @@ ("NAME" :> parts[3])
    @@ ("USER" :> parts[4]) @@ ("ST" :> parts[5]) @@ ("TIME" :> parts[6])
    @@ ("NODES" :> parts[7]) @@ ("NODELIST(REASON)" :> "")

\* an insertion at the front of the list
AppendJob_AtFront(jobs, job_data) == <<job_data>> \o jobs

\* parsed_jobs.append(job_data)
AppendJob(jobs, job_data) == Append(jobs, job_data)


RECURSIVE ScanHeader(_, _)
\* the header scan as a function: the 0-based index of the first line that
\* passes the test, -1 when the scan ends without one
ScanHeader(ls, n) ==
    IF n >= Len(ls) THEN -1
    ELSE IF IsHeader(ls[n + 1]) THEN n
    ELSE ScanHeader(ls, n + 1)

RECURSIVE ParseDataLines(_, _, _)
\* the for loop over data_lines as a function, from position n with jobs built
ParseDataLines(dl, n, jobs) ==
    IF n >= Len(dl) THEN jobs
    ELSE LET line == dl[n + 1]
             parts == Parts(line)
         IN IF IsBlank(line) THEN ParseDataLines(dl, n + 1, jobs)
            ELSE IF Branch(parts) = "full"
                 THEN ParseDataLines(dl, n + 1, AppendJob(jobs, JobDataFull(parts)))
            ELSE IF Branch(parts) = "notail"
                 THEN ParseDataLines(dl, n + 1, AppendJob(jobs, JobDataNoTail(parts)))
            ELSE ParseDataLines(dl, n + 1, jobs)

\* parse_squeue_output as a function of its argument
ParseSqueueOutput(text) ==
    LET ls == InputLines(text)
        h == ScanHeader(ls, 0)
    IN IF ls = <<>> THEN <<>>
       ELSE IF h = -1 THEN <<>>
       ELSE ParseDataLines(SubSeq(ls, h + 2, Len(ls)), 0, <<>>)

(***************************************************************************)
(* The input texts of the model: up to MaxLines lines, each one of the     *)
(* lines below, joined by "\n" or by "\r\n".                               *)
(***************************************************************************)
HeaderLine == "JOBID PARTITION NAME USER ST TIME NODES NODELIST(REASON)"
LowerUserLine == "JOBID PARTITION NAME user ST TIME NODES NODELIST(REASON)"
RowFull == "  123   compute my_job user1  R 1:00:00 1 node01"
RowTail == "789\tcompute\tcomplex\tuser3\tR\t0:10:00\t4\tnode[01-04]  (Priority)"
RowNoTail == "456 gpu_q train user2 PD 0:00:00 2"
RowNoTailSp == "457 gpu_q train user2 CG 0:00:00 2 \t"
RowFullSp == "124 compute my_job user1 S 1:00:00 1 (Resources) "
RowShort == "999 compute my_job user1 R 1:00:00"
BlankLine == ""
SpaceLine == " \t"
MarkerRow == "77 PARTITION1 myJOBID USER7 R 0:05 1 node02"

LinePalette == {HeaderLine, LowerUserLine, RowFull, RowTail, RowNoTail, RowNoTailSp,
                RowFullSp, RowShort, BlankLine, SpaceLine, MarkerRow}

Terminators == {"\n", "\r\n"}

RECURSIVE Join(_, _)
\* sep.join(ls)
Join(ls, sep) ==
    IF ls = <<>> THEN ""
    ELSE IF Len(ls) = 1 THEN ls[1]
    ELSE ls[1] \o sep \o Join(Tail(ls), sep)

Texts ==
    { Join(ls, t) : ls \in UNION { [1..n -> LinePalette] : n \in 0..MaxLines },
                    t \in Terminators }

(***************************************************************************)
(* parse_squeue_output as a sequence of steps.                             *)
(***************************************************************************)
ParserIdle ==
    /\ lines = <<>>
    /\ i = 0
    /\ header_line_index = -1
    /\ data_lines = <<>>
    /\ data_pos = 0
    /\ parsed_jobs = <<>>
    /\ result = <<>>

ViewerIdle ==
    /\ file = [kind |-> "none", text |-> ""]
    /\ all_jobs = <<>>
    /\ app_pc = "none"
    /\ table = <<>>
    /\ group_by = "(none)"
    /\ fallback_jobs = <<>>
    /\ all_jobs_is_fallback = FALSE
StyleIdle == job_status = "" /\ style = "(none)"

Init ==
    /\ squeue_output_str \in Texts
    /\ pc = "call"
    /\ ParserIdle
    /\ ViewerIdle
    /\ StyleIdle

\* lines 14-18: strip, split, the (unreachable) empty-list return, the scan's start
StripAndSplit ==
    /\ pc = "call"
    /\ lines' = InputLines(squeue_output_str)
    /\ IF lines' = <<>>
       THEN pc' = "returned" /\ result' = <<>>
       ELSE pc' = "scan" /\ result' = result
    /\ i' = 0
    /\ header_line_index' = -1
    /\ UNCHANGED <<squeue_output_str, data_lines, data_pos, parsed_jobs>>
    /\ UNCHANGED <<viewerVars, styleVars>>

\* a scan without the break: the last line that passes the test is the header
ScanHeaderFound_NoBreak ==
    /\ pc = "scan"
    /\ i < Len(lines)
    /\ IsHeader(lines[i + 1])
    /\ LET last == CHOOSE n \in i..(Len(lines) - 1) :
                       /\ IsHeader(lines[n + 1])
                       /\ \A m \in (n + 1)..(Len(lines) - 1) : ~IsHeader(lines[m + 1])
       IN /\ header_line_index' = last
          /\ data_lines' = SubSeq(lines, last + 2, Len(lines))
    /\ parsed_jobs' = <<>>
    /\ data_pos' = 0
    /\ pc' = "data"
    /\ UNCHANGED <<squeue_output_str, lines, i, result>>
    /\ UNCHANGED <<viewerVars, styleVars>>

\* lines 19-22, 29-30: the line under the scan is the header; break, slice
ScanHeaderFound ==
    /\ pc = "scan"
    /\ i < Len(lines)
    /\ IsHeader(lines[i + 1])
    /\ header_line_index' = i
    /\ data_lines' = SubSeq(lines, i + 2, Len(lines))
    /\ parsed_jobs' = <<>>
    /\ data_pos' = 0
    /\ pc' = "data"
    /\ UNCHANGED <<squeue_output_str, lines, i, result>>
    /\ UNCHANGED <<viewerVars, styleVars>>

\* lines 19-20: the line under the scan is no header; go to the next one
ScanNextLine ==
    /\ pc = "scan"
    /\ i < Len(lines)
    /\ ~IsHeader(lines[i + 1])
    /\ i' = i + 1
    /\ UNCHANGED <<squeue_output_str, lines, header_line_index, data_lines,
                   data_pos, parsed_jobs, pc, result>>
    /\ UNCHANGED <<viewerVars, styleVars>>

\* lines 24-26: the scan ended without a header
ReturnNoHeader ==
    /\ pc = "scan"
    /\ i >= Len(lines)
    /\ header_line_index = -1
    /\ result' = <<>>
    /\ pc' = "returned"
    /\ UNCHANGED <<squeue_output_str, lines, i, header_line_index, data_lines,
                   data_pos, parsed_jobs>>
    /\ UNCHANGED <<viewerVars, styleVars>>

\* the line the for loop of line 32 is at
CurrentLine == data_lines[data_pos + 1]

\* lines 33-34
SkipBlankLine ==
    /\ pc = "data"
    /\ data_pos < Len(data_lines)
    /\ IsBlank(CurrentLine)
    /\ data_pos' = data_pos + 1
    /\ UNCHANGED <<squeue_output_str, lines, i, header_line_index, data_lines,
                   parsed_jobs, pc, result>>
    /\ UNCHANGED <<viewerVars, styleVars>>

\* an 8-part branch that builds no record for a line that passes the header test
EmitFull_NotForHeaders ==
    /\ pc = "data"
    /\ data_pos < Len(data_lines)
    /\ ~IsBlank(data_lines[data_pos + 1])
    /\ Branch(Parts(data_lines[data_pos + 1])) = "full"
    /\ parsed_jobs' =
           IF IsHeader(data_lines[data_pos + 1]) THEN parsed_jobs
           ELSE AppendJob(parsed_jobs, JobDataFull(Parts(data_lines[data_pos + 1])))
    /\ data_pos' = data_pos + 1
    /\ UNCHANGED <<squeue_output_str, lines, i, header_line_index, data_lines, pc, result>>
    /\ UNCHANGED <<viewerVars, styleVars>>

\* lines 38-51; parts[7] of a shorter list raises IndexError
EmitFull ==
    /\ pc = "data"
    /\ data_pos < Len(data_lines)
    /\ ~IsBlank(CurrentLine)
    /\ Branch(Parts(CurrentLine)) = "full"
    /\ IF Len(Parts(CurrentLine)) >= 8
       THEN /\ parsed_jobs' = AppendJob(parsed_jobs, JobDataFull(Parts(CurrentLine)))
            /\ data_pos' = data_pos + 1
            /\ pc' = pc
       ELSE /\ pc' = "raised"
            /\ UNCHANGED <<parsed_jobs, data_pos>>
    /\ UNCHANGED <<squeue_output_str, lines, i, header_line_index, data_lines, result>>
    /\ UNCHANGED <<viewerVars, styleVars>>

\* lines 38, 52-64; parts[6] of a shorter list raises IndexError
EmitNoTail ==
    /\ pc = "data"
    /\ data_pos < Len(data_lines)
    /\ ~IsBlank(CurrentLine)
    /\ Branch(Parts(CurrentLine)) = "notail"
    /\ IF Len(Parts(CurrentLine)) >= 7
       THEN /\ parsed_jobs' = AppendJob(parsed_jobs, JobDataNoTail(Parts(CurrentLine)))
            /\ data_pos' = data_pos + 1
            /\ pc' = pc
       ELSE /\ pc' = "raised"
            /\ UNCHANGED <<parsed_jobs, data_pos>>
    /\ UNCHANGED <<squeue_output_str, lines, i, header_line_index, data_lines, result>>
    /\ UNCHANGED <<viewerVars, styleVars>>

\* a malformed line that ends the loop instead of being passed over
SkipMalformedLine_EndsLoop ==
    /\ pc = "data"
    /\ data_pos < Len(data_lines)
    /\ ~IsBlank(data_lines[data_pos + 1])
    /\ Branch(Parts(data_lines[data_pos + 1])) = "skip"
    /\ result' = parsed_jobs
    /\ pc' = "returned"
    /\ UNCHANGED <<squeue_output_str, lines, i, header_line_index, data_lines,
                   data_pos, parsed_jobs>>
    /\ UNCHANGED <<viewerVars, styleVars>>

\* lines 38, 65-68
SkipMalformedLine ==
    /\ pc = "data"
    /\ data_pos < Len(data_lines)
    /\ ~IsBlank(CurrentLine)
    /\ Branch(Parts(CurrentLine)) = "skip"
    /\ data_pos' = data_pos + 1
    /\ UNCHANGED <<squeue_output_str, lines, i, header_line_index, data_lines,
                   parsed_jobs, pc, result>>
    /\ UNCHANGED <<viewerVars, styleVars>>

\* line 70
ReturnJobs ==
    /\ pc = "data"
    /\ data_pos >= Len(data_lines)
    /\ result' = parsed_jobs
    /\ pc' = "returned"
    /\ UNCHANGED <<squeue_output_str, lines, i, header_line_index, data_lines,
                   data_pos, parsed_jobs>>
    /\ UNCHANGED <<viewerVars, styleVars>>

Next ==
    \/ StripAndSplit
    \/ ScanHeaderFound
    \/ ScanNextLine
    \/ ReturnNoHeader
    \/ SkipBlankLine
    \/ EmitFull
    \/ EmitNoTail
    \/ SkipMalformedLine
    \/ ReturnJobs

Spec == Init /\ [][Next]_vars

(***************************************************************************)
(* squeue_styles.py                                                        *)
(***************************************************************************)
\* a style function that trims the state code before comparing it
get_row_style_Trimmed(status) ==
    IF Strip(status) = "R" THEN "on green"
    ELSE IF Strip(status) = "PD" THEN "on yellow"
    ELSE IF Strip(status) = "CG" THEN "on blue"
    ELSE IF Strip(status) = "S" THEN "on orange"
    ELSE ""

\* squeue_styles.get_row_style
get_row_style(status) ==
    IF status = "R" THEN "on green"
    ELSE IF status = "PD" THEN "on yellow"
    ELSE IF status = "CG" THEN "on blue"
    ELSE IF status = "S" THEN "on orange"
    ELSE ""

\* the characters the state codes of the model are made of
StatusChars == {"R", "P", "D", "C", "G", "S", "r", "X", " "}

RECURSIVE StringsOfLen(_)
StringsOfLen(n) ==
    IF n = 0 THEN {""}
    ELSE { s \o c : s \in StringsOfLen(n - 1), c \in StatusChars }

Statuses == UNION { StringsOfLen(n) : n \in 0..MaxStatusLen }

InitStyle ==
    /\ job_status \in Statuses
    /\ style = "(none)"
    /\ squeue_output_str = ""
    /\ pc = "idle"
    /\ ParserIdle
    /\ ViewerIdle

\* one call of get_row_style
GetRowStyle ==
    /\ style = "(none)"
    /\ style' = get_row_style(job_status)
    /\ UNCHANGED <<job_status, parserVars, viewerVars>>

NextStyle == GetRowStyle

SpecStyle == InitStyle /\ [][NextStyle]_vars

(***************************************************************************)
(* squeue_viewer.py: the data of the application                           *)
(***************************************************************************)
FALLBACK_JOBS_DATA == <<
    ("JOBID" :> "FB001") @@ ("PARTITION" :> "cpu") @@ ("NAME" :> "fallback_1")
    @@ ("USER" :> "userA") @@ ("ST" :> "R") @@ ("TIME" :> "0:10:00")
    @@ ("NODES" :> "1") @@ ("NODELIST(REASON)" :> "cpu01"),
    ("JOBID" :> "FB002") @@ ("PARTITION" :> "gpu") @@ ("NAME" :> "fallback_2")
    @@ ("USER" :> "userB") @@ ("ST" :> "PD") @@ ("TIME" :> "0:00:00")
    @@ ("NODES" :> "1") @@ ("NODELIST(REASON)" :> "(ResourceLimit)"),
    ("JOBID" :> "FB003") @@ ("PARTITION" :> "cpu") @@ ("NAME" :> "fallback_3")
    @@ ("USER" :> "userA") @@ ("ST" :> "R") @@ ("TIME" :> "0:20:00")
    @@ ("NODES" :> "2") @@ ("NODELIST(REASON)" :> "cpu0[2-3]") >>

\* what SQUEUE_MOCK_FILE.read_text() can meet: no file (FileNotFoundError), a
\* file that cannot be read or decoded (another exception), or a text
Files ==
    {[kind |-> "missing", text |-> ""], [kind |-> "unreadable", text |-> ""]}
    \cup { [kind |-> "text", text |-> t] : t \in Texts }

\* a load without the elif: the parser's empty list is kept for an empty file
LoadedJobs_NoElif(f) ==
    IF f.kind = "missing" THEN FALLBACK_JOBS_DATA
    ELSE IF f.kind = "unreadable" THEN FALLBACK_JOBS_DATA
    ELSE LET squeue_output == f.text
             jobs == ParseSqueueOutput(squeue_output)
         IN IF jobs = <<>> /\ squeue_output # "" THEN FALLBACK_JOBS_DATA
            ELSE jobs

\* all_jobs at the end of _load_and_parse_squeue_data
LoadedJobs(f) ==
    IF f.kind = "missing" THEN FALLBACK_JOBS_DATA
    ELSE IF f.kind = "unreadable" THEN FALLBACK_JOBS_DATA
    ELSE LET squeue_output == f.text
             jobs == ParseSqueueOutput(squeue_output)
         IN IF jobs = <<>> /\ squeue_output # "" THEN FALLBACK_JOBS_DATA
            ELSE IF jobs = <<>> THEN FALLBACK_JOBS_DATA
            ELSE jobs

\* _load_and_parse_squeue_data assigns the list FALLBACK_JOBS_DATA itself, not a
\* copy of it, in each of its four fallback cases
LoadsFallback(f) ==
    IF f.kind = "missing" THEN TRUE
    ELSE IF f.kind = "unreadable" THEN TRUE
    ELSE ParseSqueueOutput(f.text) = <<>>

(***************************************************************************)
(* Python's order of strings and of tuples of strings, by which list.sort  *)
(* compares the keys.                                                      *)
(***************************************************************************)
\* the characters of the model in the order of their code points (the
\* grave accent, which no text of the model holds, is left out)
CodePointOrder ==
    "\t\n\r !\"#$%&'()*+,-./0123456789:;<=>?@ABCDEFGHIJKLMNOPQRSTUVWXYZ[\\]^_abcdefghijklmnopqrstuvwxyz{|}~"

\* the rank of a character in the order of code points
Ord(c) == CHOOSE n \in 1..Len(CodePointOrder) : Char(CodePointOrder, n) = c

\* a < b for two str
StrLess(a, b) ==
    LET differ == {n \in 1..Len(a) : n <= Len(b) /\ Char(a, n) # Char(b, n)}
    IN IF differ = {} THEN Len(a) < Len(b)
       ELSE LET n == CHOOSE m \in differ : \A k \in differ : m <= k
            IN Ord(Char(a, n)) < Ord(Char(b, n))

\* a < b for two tuples of str of the same length
RECURSIVE TupleLess(_, _)
TupleLess(a, b) ==
    IF a = <<>> THEN FALSE
    ELSE IF Head(a) # Head(b) THEN StrLess(Head(a), Head(b))
    ELSE TupleLess(Tail(a), Tail(b))

\* the key functions of the three sorts (lines 78, 92, 105)
SortKey(job, g) ==
    IF g = "User" THEN <<job["USER"], job["JOBID"]>>
    ELSE IF g = "Partition" THEN <<job["PARTITION"], job["JOBID"]>>
    ELSE <<job["JOBID"]>>

RECURSIVE SortJobs(_, _)
\* list.sort(key=...) of a list of jobs: ascending and stable
SortJobs(jobs, g) ==
    IF jobs = <<>> THEN <<>>
    ELSE LET n == Len(jobs)
             before == SortJobs(SubSeq(jobs, 1, n - 1), g)
             last == jobs[n]
             \* the elements of the sorted front whose key is not above the last one's
             m == Cardinality({k \in 1..Len(before) :
                      ~TupleLess(SortKey(last, g), SortKey(before[k], g))})
         IN SubSeq(before, 1, m) \o <<last>> \o SubSeq(before, m + 1, Len(before))

(***************************************************************************)
(* The DataTable as update_table_data uses it: clear() drops the rows,     *)
(* add_row appends one row made of its cells and its style.                *)
(***************************************************************************)
Clear(t) == <<>>

AddRow(t, cells, row_style) == Append(t, [cells |-> cells, style |-> row_style])

Label(text) == [Label |-> text]

\* the row of a job (lines 85-90, 98-103, 107-112)
AddJobRow(t, job) ==
    AddRow(t, <<job["JOBID"], job["PARTITION"], job["NAME"], job["USER"],
                job["ST"], job["TIME"], job["NODES"], job["NODELIST(REASON)"]>>,
           get_row_style(job["ST"]))

\* the group field, the title of the group row and its style (lines 77-84, 91-97)
GroupField(g) == IF g = "User" THEN "USER" ELSE "PARTITION"
GroupTitle(g, value) ==
    IF g = "User" THEN "--- User: " \o value \o " ---"
    ELSE "--- Partition: " \o value \o " ---"
GroupStyle(g) == IF g = "User" THEN "bold magenta" ELSE "bold cyan"

RECURSIVE AddRows(_, _, _, _, _)
\* the for loops of update_table_data from the n-th job on; current is
\* <<>> for None and <<v>> for the value v of current_user / current_partition
AddRows(t, jobs, n, g, current) ==
    IF n > Len(jobs) THEN t
    ELSE LET job == jobs[n]
         IN IF g \in {"User", "Partition"}
            THEN IF <<job[GroupField(g)]>> # current
                 THEN AddRows(AddJobRow(AddRow(t, <<Label(GroupTitle(g, job[GroupField(g)]))>>,
                                               GroupStyle(g)), job),
                              jobs, n + 1, g, <<job[GroupField(g)]>>)
                 ELSE AddRows(AddJobRow(t, job), jobs, n + 1, g, current)
            ELSE AddRows(AddJobRow(t, job), jobs, n + 1, g, current)

\* an update that sorts self.all_jobs itself, without list(...)
UpdateTableData_NoCopy(g) ==
    /\ table' = AddRows(Clear(table), SortJobs(all_jobs, g), 1, g, <<>>)
    /\ group_by' = g
    /\ all_jobs' = SortJobs(all_jobs, g)
    /\ fallback_jobs' = IF all_jobs_is_fallback THEN SortJobs(all_jobs, g) ELSE fallback_jobs
    /\ UNCHANGED <<file, all_jobs_is_fallback>>

\* SqueueViewerApp.update_table_data(group_by)
UpdateTableData(g) ==
    /\ LET jobs_to_display == SortJobs(all_jobs, g)
       IN table' = AddRows(Clear(table), jobs_to_display, 1, g, <<>>)
    /\ group_by' = g
    /\ UNCHANGED <<file, all_jobs, fallback_jobs, all_jobs_is_fallback>>

(***************************************************************************)
(* str.title() of the label of a radio button.                             *)
(***************************************************************************)
LowerLetters == "abcdefghijklmnopqrstuvwxyz"
UpperLetters == "ABCDEFGHIJKLMNOPQRSTUVWXYZ"

IsLetter(c) == Contains(LowerLetters, c) \/ Contains(UpperLetters, c)
ToUpper(c) == IF Contains(LowerLetters, c) THEN Char(UpperLetters, Find(LowerLetters, c, 1)) ELSE c
ToLower(c) == IF Contains(UpperLetters, c) THEN Char(LowerLetters, Find(UpperLetters, c, 1)) ELSE c

RECURSIVE TitleFrom(_, _)
\* a letter is put in upper case where no letter comes before it and in lower
\* case elsewhere
TitleFrom(str, n) ==
    IF n > Len(str) THEN ""
    ELSE (IF n > 1 /\ IsLetter(Char(str, n - 1)) THEN ToLower(Char(str, n))
          ELSE ToUpper(Char(str, n)))
         \o TitleFrom(str, n + 1)

Title(str) == TitleFrom(str, 1)

\* the labels of the radio buttons of compose (lines 54-56)
RadioButtons == {"None", "User", "Partition"}

\* event.radio_set.pressed_button: one of the buttons, or None
NoButton == "(no button)"
PressedButtons == RadioButtons \cup {NoButton}

\* group_by_option for each button: str(selected_button.label).title()
GroupByOption == [button \in RadioButtons |-> Title(button)]

InitViewer ==
    /\ file \in Files
    /\ all_jobs = <<>>
    /\ app_pc = "init"
    /\ table = <<>>
    /\ group_by = "(none)"
    /\ fallback_jobs = FALLBACK_JOBS_DATA
    /\ all_jobs_is_fallback = FALSE
    /\ squeue_output_str = ""
    /\ pc = "idle"
    /\ ParserIdle
    /\ StyleIdle

\* SqueueViewerApp._load_and_parse_squeue_data (on_mount, line 67)
LoadAndParseSqueueData ==
    /\ app_pc = "init"
    /\ all_jobs' = LoadedJobs(file)
    /\ all_jobs_is_fallback' = LoadsFallback(file)
    /\ app_pc' = "loaded"
    /\ UNCHANGED <<file, table, group_by, fallback_jobs, parserVars, styleVars>>

\* on_mount, line 68: the first population, with the default group_by
OnMountPopulate ==
    /\ app_pc = "loaded"
    /\ UpdateTableData("None")
    /\ app_pc' = "mounted"
    /\ UNCHANGED <<parserVars, styleVars>>

\* SqueueViewerApp.on_radio_set_changed
OnRadioSetChanged ==
    /\ app_pc = "mounted"
    /\ \E selected_button \in PressedButtons :
           IF selected_button # NoButton
           THEN UpdateTableData(GroupByOption[selected_button])
           ELSE UNCHANGED <<file, all_jobs, table, group_by, fallback_jobs,
                            all_jobs_is_fallback>>
    /\ UNCHANGED <<app_pc, parserVars, styleVars>>

NextViewer == LoadAndParseSqueueData \/ OnMountPopulate \/ OnRadioSetChanged

SpecViewer == InitViewer /\ [][NextViewer]_vars

(***************************************************************************)
(* Properties.                                                             *)
(***************************************************************************)
\* the steps compute the function
StepsComputeFunction ==
    pc = "returned" => result = ParseSqueueOutput(squeue_output_str)

\* the physical lines of a text as it is given, before any trimming
RawLines(text) == Split(text, "\n")

\* the line contains each of the three header markers as a substring
HasMarkers(line) == \A m \in {"JOBID", "PARTITION", "USER"} : Contains(line, m)

\* all the whitespace-delimited words of a line
Words(line) == SplitWs(line, Len(line))

\* the names of the first seven columns, in order
FixedFields == <<"JOBID", "PARTITION", "NAME", "USER", "ST", "TIME", "NODES">>

RECURSIVE WordStart(_, _)
\* the position at which the k-th word of a line starts
WordStart(line, k) ==
    IF k = 1 THEN SkipSpace(line, 1)
    ELSE SkipSpace(line, SkipWord(line, WordStart(line, k - 1)))

\* the first seven fields of a record are the first seven words of a line
FixedFieldsFrom(job, line) ==
    LET words == Words(line)
    IN \A k \in 1..7 : FixedFields[k] \in DOMAIN job /\ job[FixedFields[k]] = words[k]

\* the line the for loop consumed last
ConsumedLine == data_lines[data_pos]

\* the record appended last
LastJob == parsed_jobs[Len(parsed_jobs)]

\* how many of the first n data lines have at least seven words
RowCount(dl, n) == Cardinality({ k \in 1..n : Len(Words(dl[k])) >= 7 })

\* C1: a text none of whose lines contains JOBID, PARTITION and USER together
\* (the empty and the whitespace-only texts among them) is parsed to the empty
\* list, and no record is ever built from it, whatever its lines look like.
C1_NoHeaderNoJobs ==
    \/ /\ parsed_jobs = <<>>
       /\ pc # "raised"
       /\ pc = "returned" => result = <<>>
    \/ LET raw == RawLines(squeue_output_str)
       IN \E n \in 1..Len(raw) : HasMarkers(raw[n])

\* C1 witness: the call has returned for a text without a header line that
\* holds a line of eight words
C1_Witness ==
    /\ pc = "returned"
    /\ LET raw == RawLines(squeue_output_str)
       IN /\ \A n \in 1..Len(raw) : ~HasMarkers(raw[n])
          /\ \E n \in 1..Len(raw) : Len(Words(raw[n])) = 8

\* the text is a header line followed only by lines of 7 or 8 tokens (a text
\* that ends with a line terminator has one last, empty line)
HeaderThenRows(text) ==
    LET raw == RawLines(text)
    IN /\ HasMarkers(raw[1])
       /\ \A n \in 2..Len(raw) :
              \/ Len(SplitWs(raw[n], 7)) \in {7, 8}
              \/ n = Len(raw) /\ raw[n] = ""

\* the lines of such a text that follow the header, in order
RowsOf(text) ==
    LET raw == RawLines(text)
    IN IF raw[Len(raw)] = "" THEN SubSeq(raw, 2, Len(raw) - 1)
       ELSE SubSeq(raw, 2, Len(raw))

\* C2: for a header line followed by N >= 0 lines of 7 or 8 tokens the call
\* returns exactly N records, the n-th one built from the n-th of these lines.
C2_OneRecordPerRowInOrder ==
    (pc = "returned" /\ HeaderThenRows(squeue_output_str))
    => LET rows == RowsOf(squeue_output_str)
       IN /\ Len(result) = Len(rows)
          /\ \A n \in 1..Len(result) : FixedFieldsFrom(result[n], rows[n])

\* C2 witness: such a text with different rows has been parsed
C2_Witness ==
    /\ pc = "returned"
    /\ HeaderThenRows(squeue_output_str)
    /\ Len(result) >= 2
    /\ result[1]["JOBID"] # result[2]["JOBID"]

\* C3: a data line of at least 8 words gives a record whose first seven fields
\* are its first seven words and whose NODELIST(REASON) is all of the line from
\* its 8th word on, inner whitespace included.
C3_TailIsRestOfLine ==
    (pc = "data" /\ data_pos > 0 /\ Len(Words(ConsumedLine)) >= 8)
    => /\ parsed_jobs # <<>>
       /\ FixedFieldsFrom(LastJob, ConsumedLine)
       /\ LastJob["NODELIST(REASON)"] =
              SubSeq(ConsumedLine, WordStart(ConsumedLine, 8), Len(ConsumedLine))

\* C3 witness: a line whose tail holds two words has been consumed
C3_Witness ==
    /\ pc = "data"
    /\ data_pos > 0
    /\ Len(Words(ConsumedLine)) = 9
    /\ LastJob["NODELIST(REASON)"] = "node[01-04]  (Priority)"

\* C4: a data line of exactly 7 tokens gives one record: its first seven fields
\* are the tokens in order, and NODELIST(REASON) is present and is "".
C4_SevenTokensEmptyTail ==
    (pc = "data" /\ data_pos > 0 /\ Len(Words(ConsumedLine)) = 7)
    => /\ Len(parsed_jobs) = RowCount(data_lines, data_pos)
       /\ parsed_jobs # <<>>
       /\ FixedFieldsFrom(LastJob, ConsumedLine)
       /\ "NODELIST(REASON)" \in DOMAIN LastJob
       /\ LastJob["NODELIST(REASON)"] = ""

\* C4 witness: a line of 7 tokens followed by whitespace has been consumed
C4_Witness ==
    /\ pc = "data"
    /\ data_pos > 0
    /\ Len(Words(ConsumedLine)) = 7
    /\ ConsumedLine # Strip(ConsumedLine)
    /\ LastJob["NODELIST(REASON)"] = ""

\* a sequence without its k-th element
RemoveAt(seq, k) == SubSeq(seq, 1, k - 1) \o SubSeq(seq, k + 1, Len(seq))

\* the position of the first line with the three markers, 0 if there is none
FirstMarked(ls) ==
    IF \E n \in 1..Len(ls) : HasMarkers(ls[n])
    THEN CHOOSE n \in 1..Len(ls) :
             HasMarkers(ls[n]) /\ \A m \in 1..(n - 1) : ~HasMarkers(ls[m])
    ELSE 0

\* C5: a line after the header that is blank, whitespace-only or has fewer
\* than 7 tokens gives no record, and the call returns what it returns for the
\* same text without that line.
C5_DroppedLineCanBeRemoved ==
    pc = "returned"
    => LET raw == RawLines(squeue_output_str)
           h == FirstMarked(raw)
       IN h > 0 =>
              \A k \in (h + 1)..Len(raw) :
                  Len(Words(raw[k])) < 7
                  => ParseSqueueOutput(Join(RemoveAt(raw, k), "\n")) = result

\* C6: every record the parser builds or returns has exactly the 8 keys, each
\* bound to a string.
C6_ExactlyEightStringFields ==
    \A jobs \in {parsed_jobs, result} :
        \A n \in 1..Len(jobs) :
            /\ DOMAIN jobs[n] = Keys
            /\ \A k \in Keys : jobs[n][k] \in STRING

\* C6 witness: a list with a record of a 7-token line and one of an 8-token
\* line has been returned
C6_Witness ==
    /\ pc = "returned"
    /\ \E n \in 1..Len(result) : result[n]["NODELIST(REASON)"] = ""
    /\ \E n \in 1..Len(result) : result[n]["NODELIST(REASON)"] # ""

\* a bound on the number of steps a call has left: it is 0 once the call is
\* over and counts the lines the loops still have to go through before that
StepsLeft ==
    CASE pc = "call" -> 2 * Len(squeue_output_str) + 5
      [] pc = "scan" -> (Len(lines) - i) + Len(lines) + 2
      [] pc = "data" -> (Len(data_lines) - data_pos) + 1
      [] OTHER -> 0

\* what holds of a call that has returned
ReturnedAfterEveryLine ==
    pc = "returned" =>
        /\ DOMAIN result = 1..Len(result)
        /\ header_line_index # -1 =>
               /\ data_lines = SubSeq(lines, header_line_index + 2, Len(lines))
               /\ data_pos = Len(data_lines)
               /\ Len(result) = RowCount(data_lines, Len(data_lines))

\* C7: a call never raises and every step brings it nearer to its end; it ends
\* by returning a list, and when a header was found the return comes after the
\* loop has gone through every line after the header, so that each row after a
\* malformed line has its record.
C7_ReturnsAfterEveryLine ==
    /\ [](pc # "raised" /\ ReturnedAfterEveryLine)
    /\ [][StepsLeft' < StepsLeft]_vars

\* C7 witness: the call has returned the record of a row that follows a
\* malformed line
C7_Witness ==
    /\ pc = "returned"
    /\ \E k \in 1..Len(data_lines) :
           /\ Len(Words(data_lines[k])) \in 1..6
           /\ \E m \in (k + 1)..Len(data_lines) :
                  /\ Len(Words(data_lines[m])) >= 7
                  /\ result # <<>>
                  /\ FixedFieldsFrom(result[Len(result)], data_lines[m])

\* C8: after the load all_jobs is the fallback list when the file is missing,
\* cannot be read, is empty or is parsed to the empty list, and is the parser's
\* list when that is not empty; so it is never empty.
C8_LoadFallsBack ==
    app_pc = "loaded"
    => /\ file.kind \in {"missing", "unreadable"} => all_jobs = FALLBACK_JOBS_DATA
       /\ file.kind = "text" =>
              IF file.text = "" \/ ParseSqueueOutput(file.text) = <<>>
              THEN all_jobs = FALLBACK_JOBS_DATA
              ELSE all_jobs = ParseSqueueOutput(file.text)
       /\ all_jobs # <<>>

\* C8 witness: a file that is not empty and holds no job has been loaded
C8_Witness ==
    /\ app_pc = "loaded"
    /\ file.kind = "text"
    /\ file.text # ""
    /\ ParseSqueueOutput(file.text) = <<>>
    /\ all_jobs = FALLBACK_JOBS_DATA

\* the style of each state code that has one
StyleOf == [R |-> "on green", PD |-> "on yellow", CG |-> "on blue", S |-> "on orange"]

\* C9: get_row_style returns the style of the four state codes R, PD, CG, S
\* and the empty string for every other argument; the code is compared as it
\* is, in its case and with its whitespace.
C9_StyleByExactCode ==
    style # "(none)"
    => style = IF job_status \in DOMAIN StyleOf THEN StyleOf[job_status] ELSE ""

\* C9 witness: a state code with a space before it has been given no style
C9_Witness ==
    /\ job_status = " R"
    /\ style = ""

\* C10: the header is the first line that contains the three markers; no line
\* up to it gives a record, and each line after it that has at least 7 words
\* gives one, the later lines with the markers among them.
C10_FirstMarkedLineIsHeader ==
    LET ls == Split(Strip(squeue_output_str), "\n")
        h == FirstMarked(ls)
    IN (pc = "returned" /\ h > 0)
       => /\ header_line_index = h - 1
          /\ Len(result) = Cardinality({ n \in (h + 1)..Len(ls) : Len(Words(ls[n])) >= 7 })
          /\ \A r \in 1..Len(result) :
                 \E n \in (h + 1)..Len(ls) :
                     Len(Words(ls[n])) >= 7 /\ FixedFieldsFrom(result[r], ls[n])

\* C10 witness: a job row with the three markers came first and was taken as
\* the header, and the line of the column titles after it became a record
C10_Witness ==
    /\ pc = "returned"
    /\ header_line_index = 0
    /\ Len(Words(lines[1])) = 8
    /\ Words(lines[1])[5] = "R"
    /\ \E r \in 1..Len(result) : result[r]["JOBID"] = "JOBID"

\* the smaller of two numbers
Min(a, b) == IF a <= b THEN a ELSE b

\* C11 as it is written: a data line is split at most 6 times, which gives at
\* most 7 parts, and the last part is the field NODELIST(REASON).
C11_AtMostSixSplits ==
    (pc = "data" /\ data_pos > 0 /\ ~IsBlank(ConsumedLine))
    => Len(Parts(ConsumedLine)) - 1 <= 6

\* C11, amended: a data line is split at runs of whitespace at most 7 times: it
\* gives as many parts as it has words, up to 8; the first seven parts hold no
\* whitespace, and the 8th, the text after the 7th split, is NODELIST(REASON).
C11_AtMostSevenSplits ==
    (pc = "data" /\ data_pos > 0 /\ ~IsBlank(ConsumedLine))
    => LET parts == Parts(ConsumedLine)
       IN /\ Len(parts) - 1 <= 7
          /\ Len(parts) = Min(Len(Words(ConsumedLine)), 8)
          /\ \A k \in 1..Min(Len(parts), 7) :
                 \A n \in 1..Len(parts[k]) : ~IsSpace(Char(parts[k], n))
          /\ Len(parts) = 8 =>
                 /\ parsed_jobs # <<>>
                 /\ LastJob["NODELIST(REASON)"] = parts[8]
                 /\ parts[8] = SubSeq(ConsumedLine, Len(ConsumedLine) - Len(parts[8]) + 1,
                                      Len(ConsumedLine))

\* C11 witness: a line has been split 7 times and its 8th part, which ends
\* with a space, is the last field of its record
C11_Witness ==
    /\ pc = "data"
    /\ data_pos > 0
    /\ Len(Parts(ConsumedLine)) - 1 = 7
    /\ LastJob["NODELIST(REASON)"] = "(Resources) "

\* the string is not empty and holds no whitespace
IsWord(str) == str # "" /\ \A n \in 1..Len(str) : ~IsSpace(Char(str, n))

\* C12: in every record built, each of the seven fields JOBID .. NODES is a
\* non-empty string without whitespace, and NODELIST(REASON) does not start
\* with whitespace; it is empty only in the record of a line of exactly 7
\* tokens.
C12_FieldsAreWords ==
    /\ \A n \in 1..Len(parsed_jobs) :
           /\ \A k \in 1..7 : IsWord(parsed_jobs[n][FixedFields[k]])
           /\ LET tail == parsed_jobs[n]["NODELIST(REASON)"]
              IN tail = "" \/ ~IsSpace(Char(tail, 1))
    /\ (pc = "data" /\ data_pos > 0 /\ Len(Words(ConsumedLine)) >= 7)
       => (LastJob["NODELIST(REASON)"] = "" <=> Len(Words(ConsumedLine)) = 7)

\* C12 witness: a line that starts with spaces and has runs of spaces between
\* its words has given a record
C12_Witness ==
    /\ pc = "data"
    /\ data_pos > 0
    /\ Len(Words(ConsumedLine)) = 8
    /\ IsSpace(Char(ConsumedLine, 1))
    /\ LastJob["JOBID"] = "123"
    /\ LastJob["NODELIST(REASON)"] = "node01"

\* how many line ends the whitespace at the start of a text holds
LeadingLineEnds(text) ==
    Len(Split(SubSeq(text, 1, SkipSpace(text, 1) - 1), "\n")) - 1

\* the 1-based position in lines of the line the for loop consumed last
ConsumedIndex == header_line_index + 1 + data_pos

\* the line consumed last as it stands in the text that was given
ConsumedRawLine ==
    RawLines(squeue_output_str)[LeadingLineEnds(squeue_output_str) + ConsumedIndex]

\* C13: the whitespace that ends a line of at least 8 words is kept at the end
\* of NODELIST(REASON) when the line is not the last line of the trimmed input
\* (so the field ends with the carriage return of a "\r\n" line end) and is
\* removed when it is the last one; a line of 7 words gives the empty field
\* whatever whitespace follows the 7th word.
C13_TrailingWhitespaceByPosition ==
    (pc = "data" /\ data_pos > 0 /\ Len(Words(ConsumedLine)) >= 7)
    => LET raw == ConsumedRawLine
           tail == LastJob["NODELIST(REASON)"]
       IN /\ Len(Words(raw)) = 7 => tail = ""
          /\ (Len(Words(raw)) >= 8 /\ ConsumedIndex < Len(lines)) =>
                 /\ tail = SubSeq(raw, WordStart(raw, 8), Len(raw))
                 /\ IsSpace(Char(raw, Len(raw))) => Char(tail, Len(tail)) = Char(raw, Len(raw))
          /\ (Len(Words(raw)) >= 8 /\ ConsumedIndex = Len(lines)) =>
                 /\ tail = SubSeq(raw, WordStart(raw, 8), LastNonSpace(raw))
                 /\ ~IsSpace(Char(tail, Len(tail)))

\* C13 witness: with "\r\n" line ends, a row of 8 words that is not the last
\* line has a last field that ends with the carriage return
C13_Witness ==
    /\ pc = "data"
    /\ data_pos > 0
    /\ ConsumedIndex < Len(lines)
    /\ Len(Words(ConsumedLine)) = 8
    /\ LastJob["NODELIST(REASON)"] = "node01\r"

\* a second case of C13: the row is the last line, the text ends with
\* whitespace, and the field has none of it
C13_LastLineTrimmed ==
    /\ pc = "data"
    /\ data_pos > 0
    /\ ConsumedIndex = Len(lines)
    /\ IsSpace(Char(squeue_output_str, Len(squeue_output_str)))
    /\ LastJob["NODELIST(REASON)"] = "(Resources)"

\* C14: a line with the three markers that comes after the header does not
\* become the header: the header stays the first such line, and the later line
\* is a data line like any other, whose record, when it has at least 7 words,
\* has its first word (the column title JOBID, for a repeated title line) as
\* JOBID.
C14_LaterMarkedLineIsData ==
    (pc = "data" /\ data_pos > 0 /\ HasMarkers(ConsumedLine))
    => /\ header_line_index + 1 = FirstMarked(lines)
       /\ header_line_index + 1 < ConsumedIndex
       /\ Len(parsed_jobs) = RowCount(data_lines, data_pos)
       /\ Len(Words(ConsumedLine)) >= 7 =>
              /\ parsed_jobs # <<>>
              /\ FixedFieldsFrom(LastJob, ConsumedLine)
              /\ LastJob["JOBID"] = Words(ConsumedLine)[1]

\* C14 witness: the title line came a second time and has given a record whose
\* fields are the column titles
C14_Witness ==
    /\ pc = "data"
    /\ data_pos > 0
    /\ lines[header_line_index + 1] = HeaderLine
    /\ ConsumedLine = HeaderLine
    /\ LastJob["JOBID"] = "JOBID"
    /\ LastJob["NODELIST(REASON)"] = "NODELIST(REASON)"

\* the columns of the table, in the order of the cells of a job row
Columns == FixedFields \o <<"NODELIST(REASON)">>

\* the cells of the row of a job
CellsOf(job) == [k \in 1..Len(Columns) |-> job[Columns[k]]]

IsJobRow(row) == Len(row.cells) = Len(Columns)
IsGroupRow(row) == Len(row.cells) = 1

\* the job rows of a table, in order
JobRows(t) == SelectSeq(t, IsJobRow)

\* the column a grouping goes by
GroupColumn(g) == IF g = "User" THEN 4 ELSE 2

\* the key by which the rows of a grouping are ordered: the group value, if
\* there is one, then the JOBID
OrderKey(cells, g) ==
    IF g \in {"User", "Partition"} THEN <<cells[GroupColumn(g)], cells[1]>>
    ELSE <<cells[1]>>

\* the job rows of the table are the jobs of all_jobs, one row each, in
\* ascending order of their keys, the jobs of equal keys in the order of all_jobs
JobRowsAreSortedJobs ==
    LET rows == JobRows(table)
        n == Len(all_jobs)
    IN /\ Len(rows) = n
       /\ \E p \in Permutations(1..n) :
              /\ \A k \in 1..n : rows[k].cells = CellsOf(all_jobs[p[k]])
              /\ \A k \in 1..(n - 1) :
                     LET a == OrderKey(rows[k].cells, group_by)
                         b == OrderKey(rows[k + 1].cells, group_by)
                     IN /\ ~TupleLess(b, a)
                        /\ a = b => p[k] < p[k + 1]

\* with a grouping, each distinct value has one group row, just before the
\* first job row of the value; without one there is no group row
GroupRowsAreInPlace ==
    LET grouped == group_by \in {"User", "Partition"}
        col == GroupColumn(group_by)
        prefix == IF group_by = "User" THEN "--- User: " ELSE "--- Partition: "
    IN /\ \A r \in 1..Len(table) : IsJobRow(table[r]) \/ (grouped /\ IsGroupRow(table[r]))
       /\ \A r \in 1..Len(table) :
              IF IsJobRow(table[r])
              THEN grouped =>
                       /\ r > 1
                       /\ IsJobRow(table[r - 1]) => table[r - 1].cells[col] = table[r].cells[col]
              ELSE /\ r < Len(table)
                   /\ IsJobRow(table[r + 1])
                   /\ table[r].cells[1].Label = prefix \o table[r + 1].cells[col] \o " ---"
                   /\ \A q \in 1..(r - 1) :
                          IsJobRow(table[q]) => table[q].cells[col] # table[r + 1].cells[col]
       /\ grouped =>
              Len(table) - Len(JobRows(table))
                  = Cardinality({all_jobs[k][Columns[col]] : k \in 1..Len(all_jobs)})

\* a step after the load leaves all_jobs and the list FALLBACK_JOBS_DATA as they are
JobListsUnchanged ==
    app_pc \in {"loaded", "mounted"}
    => (all_jobs' = all_jobs /\ fallback_jobs' = fallback_jobs)

C15_StringOrder ==
    /\ app_pc = "mounted"
    /\ group_by = "None"
    /\ ~all_jobs_is_fallback
    /\ Len(all_jobs) = 2
    /\ all_jobs[1]["JOBID"] = "77"
    /\ all_jobs[2]["JOBID"] = "123"
    /\ table[1].cells[1] = "123"
    /\ table[2].cells[1] = "77"

====
